---- MODULE Spec2Model ----
(***************************************************************************)
(* Livetime binning and exposure correction of maltpynt/exposure.py.       *)
(*                                                                         *)
(* Times are exact integers on a grid of half-epsilons: the offset 1e-9    *)
(* that the boundary clamps add is EPS = 2 grid units, so that an event    *)
(* can lie strictly between a bin edge and that edge plus the offset.      *)
(* Floating-point rounding is not modelled.  Python arrays are sequences;  *)
(* the bin indices the code computes (lts_bin, ev_bin, e_idx, l_idx) keep  *)
(* their 0-based Python values, and the element with Python index k is     *)
(* element k + 1 of the sequence.                                          *)
(***************************************************************************)
EXTENDS Integers, Sequences, FiniteSets, TLC

VARIABLES
    entry,            \* the function called: get_livetime_per_bin or correct_lightcurve
    times,            \* argument times: the bin centres
    dtArg,            \* argument dt: [kind: "none" | "scalar" | "array", val: sequence]
    events,           \* argument events
    priors,           \* argument priors
    contents,         \* correct_lightcurve: the light-curve file contents
    expo_limit,       \* correct_lightcurve: argument expo_limit
    pc,               \* position in the code
    err,              \* the exception raised, "none" when there is none
    dt,               \* local dt after the broadcast of lines 49-54
    tbins,            \* local tbins (tbin_starts is tbins without its last edge)
    ev_fl,            \* local ev_fl
    pr_fl,            \* local pr_fl
    livetime_starts,  \* local livetime_starts
    lts_bin,          \* local lts_bin
    ev_bin,           \* local ev_bin
    expo,             \* local expo, the histogram of the same-bin pass
    livetime_array,   \* local livetime_array, the working and returned array
    bin_diff,         \* the loop variable of line 109
    outdata           \* correct_lightcurve: the returned data

vars == <<entry, times, dtArg, events, priors, contents, expo_limit, pc, err, dt,
          tbins, ev_fl, pr_fl, livetime_starts, lts_bin, ev_bin, expo,
          livetime_array, bin_diff, outdata>>

(***************************************************************************)
(* Bounds of the model.                                                    *)
(***************************************************************************)
NBins == 3        \* number of bins of the time axis
HalfWidth == 2    \* half the width of a bin of the uniform axis, in grid units
MaxEvents == 2    \* longest event list
Margin == 1       \* how far outside the axis an event time may lie
MaxCount == 2     \* largest raw light-curve value of a bin

\* The offset 1e-9 of the two boundary clamps, in grid units.
EPS == 2

(***************************************************************************)
(* Helpers.                                                                *)
(***************************************************************************)
Range(s) == {s[i] : i \in DOMAIN s}

Max(S) == CHOOSE x \in S : \A y \in S : y <= x

RECURSIVE SumSeq(_)
SumSeq(s) == IF s = <<>> THEN 0 ELSE Head(s) + SumSeq(Tail(s))

\* The positions at which the boolean array b is true, ascending.
Mask(b) == SelectSeq([i \in 1..Len(b) |-> i], LAMBDA i : b[i])

\* s[mask]: the elements of s at the selected positions.
Take(s, sel) == [k \in 1..Len(sel) |-> s[sel[k]]]

(***************************************************************************)
(* numpy operations, as the code uses them.                                *)
(***************************************************************************)
\* np.diff(t)
Diff(t) == [i \in 1..(Len(t) - 1) |-> t[i + 1] - t[i]]

\* The k-th smallest element of s.
Kth(s, k) ==
    CHOOSE x \in Range(s) :
        /\ Cardinality({i \in DOMAIN s : s[i] < x}) < k
        /\ Cardinality({i \in DOMAIN s : s[i] <= x}) >= k

\* np.median(s): the mean of the two middle elements (exact on the axes drawn,
\* whose consecutive differences are even and equal).
Median(s) == (Kth(s, (Len(s) + 1) \div 2) + Kth(s, Len(s) \div 2 + 1)) \div 2

\* np.searchsorted(a, v, 'right') on an ascending a: the number of elements <= v.
SearchSortedRight(a, v) == Cardinality({i \in DOMAIN a : a[i] <= v})

\* np.all(a): every element is nonzero.
np_all(a) == \A i \in DOMAIN a : a[i] # 0

\* A Python bool used as a number.
BoolAsInt(b) == IF b THEN 1 ELSE 0

\* Python index normalisation: a negative index counts from the end.
PyIndex(i, n) == IF i < 0 THEN i + n ELSE i

\* Whether every index of idx is accepted for an array of length n.
IndexOk(idx, n) == \A k \in DOMAIN idx : -n <= idx[k] /\ idx[k] < n

\* arr[idx] for an index array idx.
Gather(arr, idx) == [k \in DOMAIN idx |-> arr[PyIndex(idx[k], Len(arr)) + 1]]

\* arr[idx] += vals for an index array idx: numpy gathers arr[idx], adds vals
\* and assigns the result back element by element, so that when an index occurs
\* several times only the last addition is kept.
FancyAdd(arr, idx, vals) ==
    [b \in 1..Len(arr) |->
        LET hits == {k \in DOMAIN idx : PyIndex(idx[k], Len(arr)) = b - 1}
        IN  IF hits = {} THEN arr[b] ELSE arr[b] + vals[Max(hits)]]

\* The bin np.histogram puts x in: bins are closed on the left and open on the
\* right, the last bin is closed on both sides.
HistBin(tb, x) ==
    IF x = tb[Len(tb)] THEN Len(tb) - 2 ELSE SearchSortedRight(tb, x) - 1

\* np.histogram(x, bins=tb, weights=w)[0]
Histogram(x, w, tb) ==
    [b \in 1..(Len(tb) - 1) |->
        SumSeq([k \in DOMAIN x |->
            IF /\ tb[1] <= x[k]
               /\ x[k] <= tb[Len(tb)]
               /\ HistBin(tb, x[k]) = b - 1
            THEN w[k] ELSE 0])]

\* np.histogram accepts only bin edges that do not decrease.
Monotonic(tb) == \A i \in 1..(Len(tb) - 1) : tb[i] <= tb[i + 1]

(***************************************************************************)
(* get_livetime_per_bin, piece by piece.                                   *)
(***************************************************************************)
\* The assert lets a shorter event list through.
LengthsMatch_AtMost(ev, pr) == Len(ev) <= Len(pr)

\* line 46: the condition of the assert
LengthsMatch(ev, pr) == Len(ev) = Len(pr)

\* lines 49-54: dt defaults to the median bin distance; a scalar is broadcast
BroadcastDt(arg, t) ==
    CASE arg.kind = "none"   -> [i \in 1..Len(t) |-> Median(Diff(t))]
      [] arg.kind = "scalar" -> [i \in 1..Len(t) |-> arg.val[1]]
      [] OTHER               -> arg.val

\* line 57: events relative to the first event
ShiftEvents(ev) == [i \in DOMAIN ev |-> ev[i] - ev[1]]

\* line 61
LivetimeStarts(e, p) == [i \in DOMAIN e |-> e[i] - p[i]]

\* lines 65-67: the N + 1 bin edges, relative to the first event
BinEdges(t, d, e0) ==
    [i \in 1..(Len(t) + 1) |->
        IF i <= Len(t) THEN t[i] - d[i] \div 2 - e0
        ELSE t[Len(t)] + d[Len(t)] \div 2 - e0]

\* line 69
tbin_starts == SubSeq(tbins, 1, Len(tbins) - 1)

\* The filter keeps an event that lies on the first edge.
InRange_Inclusive(e, l, tb) == e >= tb[1] /\ l < tb[Len(tb)]

\* line 72: the range filter, for one event
InRange(e, l, tb) == e > tb[1] /\ l < tb[Len(tb)]

\* lines 80-81
BeforeStart(l, e, tb) == l < tb[1] /\ e > tb[1]

\* lines 86-87
AfterEnd(l, e, tb) == l < tb[Len(tb)] /\ e > tb[Len(tb)]

\* line 83
ClampedStart(tb) == tb[1] + EPS

\* line 88
ClampedEvent(tb) == tb[Len(tb)] - EPS

\* lines 94-95: the bin a time belongs to
BinOf(starts, t) == SearchSortedRight(starts, t) - 1

\* line 102: the condition of the assert, np.all(expo) >= 0
ExpoAssert(x) == BoolAsInt(np_all(x)) >= 0

\* line 118
EventIdx(starts, t) == SearchSortedRight(starts, t) - 1

\* The index of the start bin itself, as on line 118, not of the next edge.
NextEdgeIdx_OwnEdge(starts, t) == SearchSortedRight(starts, t) - 1

\* line 125
NextEdgeIdx(starts, t) == SearchSortedRight(starts, t)

\* lines 133-136: the complete bins, for i = from .. bd - 1 in turn
RECURSIVE CompleteBins(_, _, _, _, _)
CompleteBins(arr, lbg, d, from, bd) ==
    IF from >= bd THEN [arr |-> arr, err |-> "none"]
    ELSE LET idx == [k \in DOMAIN lbg |-> lbg[k] + from]
         IN  IF ~IndexOk(idx, Len(d)) \/ ~IndexOk(idx, Len(arr))
             THEN [arr |-> arr, err |-> "IndexError"]
             ELSE CompleteBins(FancyAdd(arr, idx, Gather(d, idx)), lbg, d,
                               from + 1, bd)

\* lines 110-136: one pass of the loop, for the span length bd
SpanPassResult(arr, bd, eb, lb, e, l, starts, d) ==
    LET idxs        == Mask([k \in DOMAIN eb |-> eb[k] = lb[k] + bd])
        ev_bin_good == Take(eb, idxs)
        lts_bin_good == Take(lb, idxs)
        ev_good     == Take(e, idxs)
        lt_good     == Take(l, idxs)
        e_idx       == [k \in DOMAIN ev_good |-> EventIdx(starts, ev_good[k])]
        l_idx       == [k \in DOMAIN lt_good |-> NextEdgeIdx(starts, lt_good[k])]
    IN  IF ~IndexOk(e_idx, Len(starts)) \/ ~IndexOk(ev_bin_good, Len(arr))
        THEN [arr |-> arr, err |-> "IndexError"]
        ELSE
        LET end_part == [k \in DOMAIN ev_good |->
                            ev_good[k] - Gather(starts, e_idx)[k]]
            arr1     == FancyAdd(arr, ev_bin_good, end_part)
        IN  IF \E k \in DOMAIN end_part : end_part[k] < 0
            THEN [arr |-> arr1, err |-> "AssertionError"]
            ELSE IF ~IndexOk(l_idx, Len(starts)) \/ ~IndexOk(lts_bin_good, Len(arr))
            THEN [arr |-> arr1, err |-> "IndexError"]
            ELSE
            LET start_part == [k \in DOMAIN lt_good |->
                                  Gather(starts, l_idx)[k] - lt_good[k]]
                arr2       == FancyAdd(arr1, lts_bin_good, start_part)
            IN  IF \E k \in DOMAIN start_part : start_part[k] < 0
                THEN [arr |-> arr2, err |-> "AssertionError"]
                ELSE CompleteBins(arr2, lts_bin_good, d, 1, bd)

\* lines 49-69: dt, the shifted events, the livetime starts and the bin edges
Geometry(t, dArg, ev, pr) ==
    LET d == BroadcastDt(dArg, t)
        e == ShiftEvents(ev)
    IN  [dt              |-> d,
         ev_fl           |-> e,
         pr_fl           |-> pr,
         livetime_starts |-> LivetimeStarts(e, pr),
         tbins           |-> BinEdges(t, d, ev[1])]

\* lines 72-75: the events inside the range of the light curve
Filtered(e, p, l, tb) ==
    LET keep == Mask([i \in DOMAIN e |-> InRange(e[i], l[i], tb)])
    IN  [ev_fl           |-> Take(e, keep),
         pr_fl           |-> Take(p, keep),
         livetime_starts |-> Take(l, keep)]

\* line 77: np.zeros_like(times)
Zeros(t) == [i \in 1..Len(t) |-> 0]

\* lines 80-89: the priors at the start and at the end of the light curve
Normalized(e, p, l, tb) ==
    LET l1 == [k \in DOMAIN l |->
                  IF BeforeStart(l[k], e[k], tb) THEN ClampedStart(tb) ELSE l[k]]
        p1 == [k \in DOMAIN p |->
                  IF BeforeStart(l[k], e[k], tb) THEN e[k] - l1[k] ELSE p[k]]
        e2 == [k \in DOMAIN e |->
                  IF AfterEnd(l1[k], e[k], tb) THEN ClampedEvent(tb) ELSE e[k]]
        p2 == [k \in DOMAIN p |->
                  IF AfterEnd(l1[k], e[k], tb) THEN e2[k] - l1[k] ELSE p1[k]]
    IN  [ev_fl |-> e2, pr_fl |-> p2, livetime_starts |-> l1]

\* lines 94-95
Bins(e, l, starts) ==
    [lts_bin |-> [k \in DOMAIN l |-> BinOf(starts, l[k])],
     ev_bin  |-> [k \in DOMAIN e |-> BinOf(starts, e[k])]]

\* lines 98-100: the histogram of the events that share a bin with their
\* livetime start, weighted by their priors
SameBin(e, p, eb, lb, tb) ==
    LET first_pass == Mask([k \in DOMAIN e |-> eb[k] = lb[k]])
    IN  Histogram(Take(e, first_pass), Take(p, first_pass), tb)

\* line 103: livetime_array += expo
AddArrays(a, b) == [i \in DOMAIN a |-> a[i] + b[i]]

\* line 107
MaxBinDiff(eb, lb) == Max({eb[k] - lb[k] : k \in DOMAIN eb})

\* lines 109-136: the passes bd, bd - 1, ..., 1
RECURSIVE SpanLoop(_, _, _, _, _, _, _, _)
SpanLoop(arr, bd, eb, lb, e, l, starts, d) ==
    IF bd < 1 THEN [arr |-> arr, err |-> "none"]
    ELSE LET r == SpanPassResult(arr, bd, eb, lb, e, l, starts, d)
         IN  IF r.err # "none" THEN r
             ELSE SpanLoop(r.arr, bd - 1, eb, lb, e, l, starts, d)

\* lines 46-138: the whole function, [arr: the array returned, err: the
\* exception raised instead]
Livetime(t, dArg, ev, pr) ==
    IF ~LengthsMatch(ev, pr) THEN [arr |-> <<>>, err |-> "AssertionError"]
    ELSE IF Len(ev) = 0 THEN [arr |-> <<>>, err |-> "IndexError"]
    ELSE
    LET g      == Geometry(t, dArg, ev, pr)
        f      == Filtered(g.ev_fl, g.pr_fl, g.livetime_starts, g.tbins)
        n      == Normalized(f.ev_fl, f.pr_fl, f.livetime_starts, g.tbins)
        starts == SubSeq(g.tbins, 1, Len(g.tbins) - 1)
        b      == Bins(n.ev_fl, n.livetime_starts, starts)
        x      == SameBin(n.ev_fl, n.pr_fl, b.ev_bin, b.lts_bin, g.tbins)
    IN  IF ~Monotonic(g.tbins) THEN [arr |-> <<>>, err |-> "ValueError"]
        ELSE IF ~ExpoAssert(x) THEN [arr |-> <<>>, err |-> "AssertionError"]
        ELSE IF Len(b.ev_bin) = 0 THEN [arr |-> <<>>, err |-> "ValueError"]
        ELSE LET r == SpanLoop(AddArrays(Zeros(t), x),
                               MaxBinDiff(b.ev_bin, b.lts_bin), b.ev_bin, b.lts_bin,
                               n.ev_fl, n.livetime_starts, starts, g.dt)
             IN  IF r.err # "none" THEN [arr |-> <<>>, err |-> r.err] ELSE r

(***************************************************************************)
(* correct_lightcurve.  A rate is the exact quotient <<numerator,          *)
(* denominator>>; a zero denominator stands for the inf or nan that the    *)
(* division by a zero exposure gives.                                      *)
(***************************************************************************)
\* lc / expo * dt for one bin, line 288
Rate(l, e, width) == <<l * width, e>>

Zero == <<0, 1>>

\* The bins at the limit are set to zero too.
BelowLimit_Inclusive(e, limit) == e <= limit

\* line 289: the bins whose rate is set to zero
BelowLimit(e, limit) == e < limit

\* lines 288-289
CorrectedLc(l, e, d, limit) ==
    [i \in DOMAIN l |->
        IF BelowLimit(e[i], limit) THEN Zero ELSE Rate(l[i], e[i], d)]

(***************************************************************************)
(* The inputs.  A time axis is contiguous: bin i is the interval           *)
(* [times[i] - dt[i]/2, times[i] + dt[i]/2) and ends where bin i + 1       *)
(* starts; every bin is wider than EPS.  The axis starts at time 0.        *)
(* Events ascend.  Priors may be negative and livetime intervals may       *)
(* overlap: the code accepts both.  A single event takes every time and    *)
(* every prior of the window around the axis; the events of a longer list  *)
(* take the times and priors of a coarser grid.                            *)
(***************************************************************************)
UniformWidths == [i \in 1..NBins |-> 2 * HalfWidth]

\* Every second bin is two grid units wider.
VariedWidths == [i \in 1..NBins |-> 2 * HalfWidth + 2 * ((i + 1) % 2)]

Centres(w) == [i \in 1..Len(w) |-> SumSeq(SubSeq(w, 1, i - 1)) + w[i] \div 2]

AxisEnd(w) == SumSeq(w)

ScalarAxis ==
    [times |-> Centres(UniformWidths), w |-> UniformWidths,
     dt |-> [kind |-> "scalar", val |-> <<2 * HalfWidth>>]]

DefaultAxis ==
    [times |-> Centres(UniformWidths), w |-> UniformWidths,
     dt |-> [kind |-> "none", val |-> <<>>]]

ArrayAxis ==
    [times |-> Centres(VariedWidths), w |-> VariedWidths,
     dt |-> [kind |-> "array", val |-> VariedWidths]]

EventTimes(w) == (0 - Margin)..(AxisEnd(w) + Margin)

PriorValues(w) == (0 - 1)..(AxisEnd(w) + 2 * Margin)

Ascending(s) == \A i \in 1..(Len(s) - 1) : s[i] <= s[i + 1]

\* The times of the events of a list of several events: none on a bin edge of
\* the uniform axis, the first one less than EPS after the first edge.
ListTimes(w) == {t \in EventTimes(w) : t % HalfWidth = 1}

\* The priors of the events of a list of several events.
ListPriors(w) ==
    {0 - 1, 0, 1, HalfWidth + 1, 2 * HalfWidth + 1, AxisEnd(w) + 2 * Margin}

EventLists(w, n) ==
    {s \in [1..n -> IF n <= 1 THEN EventTimes(w) ELSE ListTimes(w)] : Ascending(s)}

PriorLists(w, n) == [1..n -> IF n <= 1 THEN PriorValues(w) ELSE ListPriors(w)]

NoContents == [time |-> <<>>, lc |-> <<>>, dt |-> 0]

NoData == [time |-> <<>>, lc |-> <<>>, dt |-> 0, expo |-> <<>>]

LightCurves == [1..NBins -> {0, MaxCount}]

ExpoLimits == {1, HalfWidth + 1}

\* The locals before the function has set them.
Unset ==
    /\ pc = "start"
    /\ err = "none"
    /\ dt = <<>>
    /\ tbins = <<>>
    /\ ev_fl = <<>>
    /\ pr_fl = <<>>
    /\ livetime_starts = <<>>
    /\ lts_bin = <<>>
    /\ ev_bin = <<>>
    /\ expo = <<>>
    /\ livetime_array = <<>>
    /\ bin_diff = 0
    /\ outdata = NoData

\* A call of get_livetime_per_bin on axis a with n events and m priors.
DirectCall(a, n, m) ==
    /\ entry = "get_livetime_per_bin"
    /\ times = a.times
    /\ dtArg = a.dt
    /\ events \in EventLists(a.w, n)
    /\ priors \in PriorLists(a.w, m)
    /\ contents = NoContents
    /\ expo_limit = 0
    /\ Unset

\* A call of correct_lightcurve: the light curve file holds time, lc and a
\* scalar dt, the event file holds one PRIOR per event.
CorrectCall(n) ==
    /\ entry = "correct_lightcurve"
    /\ contents \in {[time |-> ScalarAxis.times, lc |-> l, dt |-> 2 * HalfWidth] :
                       l \in LightCurves}
    /\ times = contents.time
    /\ dtArg = [kind |-> "scalar", val |-> <<contents.dt>>]
    /\ events \in EventLists(ScalarAxis.w, n)
    /\ priors \in PriorLists(ScalarAxis.w, n)
    /\ expo_limit \in ExpoLimits
    /\ Unset

Init ==
    \/ \E n \in 0..MaxEvents : DirectCall(ArrayAxis, n, n)
    \/ \E n \in 0..1 : DirectCall(ScalarAxis, n, n) \/ DirectCall(DefaultAxis, n, n)
    \/ \E n \in 0..1, m \in 0..MaxEvents : n # m /\ DirectCall(ScalarAxis, n, m)
    \/ CorrectCall(1)

(***************************************************************************)
(* The steps of get_livetime_per_bin and of correct_lightcurve.            *)
(***************************************************************************)
Raise(e) == pc' = "error" /\ err' = e

\* line 46
CheckLengths ==
    /\ pc = "start"
    /\ IF LengthsMatch(events, priors) THEN pc' = "geometry" /\ err' = err
       ELSE Raise("AssertionError")
    /\ UNCHANGED <<entry, times, dtArg, events, priors, contents, expo_limit, dt,
                   tbins, ev_fl, pr_fl, livetime_starts, lts_bin, ev_bin, expo,
                   livetime_array, bin_diff, outdata>>

\* lines 49-69; events[0] of an empty event list raises IndexError
SetGeometry ==
    /\ pc = "geometry"
    /\ IF Len(events) = 0
       THEN /\ Raise("IndexError")
            /\ dt' = BroadcastDt(dtArg, times)
            /\ UNCHANGED <<tbins, ev_fl, pr_fl, livetime_starts>>
       ELSE LET g == Geometry(times, dtArg, events, priors)
            IN  /\ pc' = "filter"
                /\ err' = err
                /\ dt' = g.dt
                /\ tbins' = g.tbins
                /\ ev_fl' = g.ev_fl
                /\ pr_fl' = g.pr_fl
                /\ livetime_starts' = g.livetime_starts
    /\ UNCHANGED <<entry, times, dtArg, events, priors, contents, expo_limit,
                   lts_bin, ev_bin, expo, livetime_array, bin_diff, outdata>>

\* lines 71-77
FilterRange ==
    /\ pc = "filter"
    /\ LET f == Filtered(ev_fl, pr_fl, livetime_starts, tbins)
       IN  /\ ev_fl' = f.ev_fl
           /\ pr_fl' = f.pr_fl
           /\ livetime_starts' = f.livetime_starts
    /\ livetime_array' = Zeros(times)
    /\ pc' = "normalize"
    /\ UNCHANGED <<entry, times, dtArg, events, priors, contents, expo_limit, err,
                   dt, tbins, lts_bin, ev_bin, expo, bin_diff, outdata>>

\* lines 79-89
NormalizePriors ==
    /\ pc = "normalize"
    /\ LET n == Normalized(ev_fl, pr_fl, livetime_starts, tbins)
       IN  /\ ev_fl' = n.ev_fl
           /\ pr_fl' = n.pr_fl
           /\ livetime_starts' = n.livetime_starts
    /\ pc' = "bins"
    /\ UNCHANGED <<entry, times, dtArg, events, priors, contents, expo_limit, err,
                   dt, tbins, lts_bin, ev_bin, expo, livetime_array, bin_diff,
                   outdata>>

\* lines 93-95
FindBins ==
    /\ pc = "bins"
    /\ LET b == Bins(ev_fl, livetime_starts, tbin_starts)
       IN  lts_bin' = b.lts_bin /\ ev_bin' = b.ev_bin
    /\ pc' = "first_pass"
    /\ UNCHANGED <<entry, times, dtArg, events, priors, contents, expo_limit, err,
                   dt, tbins, ev_fl, pr_fl, livetime_starts, expo, livetime_array,
                   bin_diff, outdata>>

\* lines 97-103; np.histogram raises ValueError on decreasing bin edges
FirstPass ==
    /\ pc = "first_pass"
    /\ IF ~Monotonic(tbins)
       THEN Raise("ValueError") /\ UNCHANGED <<expo, livetime_array>>
       ELSE LET x == SameBin(ev_fl, pr_fl, ev_bin, lts_bin, tbins)
            IN  /\ expo' = x
                /\ IF ExpoAssert(x)
                   THEN /\ livetime_array' = AddArrays(livetime_array, x)
                        /\ pc' = "max_bin_diff"
                        /\ err' = err
                   ELSE Raise("AssertionError") /\ UNCHANGED livetime_array
    /\ UNCHANGED <<entry, times, dtArg, events, priors, contents, expo_limit, dt,
                   tbins, ev_fl, pr_fl, livetime_starts, lts_bin, ev_bin, bin_diff,
                   outdata>>

\* lines 107-109; np.max of an empty array raises ValueError
StartSpans ==
    /\ pc = "max_bin_diff"
    /\ IF Len(ev_bin) = 0
       THEN Raise("ValueError") /\ UNCHANGED bin_diff
       ELSE /\ bin_diff' = MaxBinDiff(ev_bin, lts_bin)
            /\ pc' = "span"
            /\ err' = err
    /\ UNCHANGED <<entry, times, dtArg, events, priors, contents, expo_limit, dt,
                   tbins, ev_fl, pr_fl, livetime_starts, lts_bin, ev_bin, expo,
                   livetime_array, outdata>>

\* lines 109-136: one pass of the loop
SpanPass ==
    /\ pc = "span"
    /\ bin_diff >= 1
    /\ LET r == SpanPassResult(livetime_array, bin_diff, ev_bin, lts_bin, ev_fl,
                               livetime_starts, tbin_starts, dt)
       IN  /\ livetime_array' = r.arr
           /\ IF r.err = "none"
              THEN pc' = pc /\ err' = err /\ bin_diff' = bin_diff - 1
              ELSE Raise(r.err) /\ UNCHANGED bin_diff
    /\ UNCHANGED <<entry, times, dtArg, events, priors, contents, expo_limit, dt,
                   tbins, ev_fl, pr_fl, livetime_starts, lts_bin, ev_bin, expo,
                   outdata>>

\* line 138
Return ==
    /\ pc = "span"
    /\ bin_diff < 1
    /\ pc' = "returned"
    /\ UNCHANGED <<entry, times, dtArg, events, priors, contents, expo_limit, err,
                   dt, tbins, ev_fl, pr_fl, livetime_starts, lts_bin, ev_bin, expo,
                   livetime_array, bin_diff, outdata>>

\* lines 284-294 of correct_lightcurve, after get_exposure_from_uf has returned
CorrectLightcurve ==
    /\ pc = "returned"
    /\ entry = "correct_lightcurve"
    /\ outdata' = [time |-> contents.time,
                   lc   |-> CorrectedLc(contents.lc, livetime_array, contents.dt,
                                        expo_limit),
                   dt   |-> contents.dt,
                   expo |-> livetime_array]
    /\ pc' = "saved"
    /\ UNCHANGED <<entry, times, dtArg, events, priors, contents, expo_limit, err,
                   dt, tbins, ev_fl, pr_fl, livetime_starts, lts_bin, ev_bin, expo,
                   livetime_array, bin_diff>>

Next ==
    \/ CheckLengths
    \/ SetGeometry
    \/ FilterRange
    \/ NormalizePriors
    \/ FindBins
    \/ FirstPass
    \/ StartSpans
    \/ SpanPass
    \/ Return
    \/ CorrectLightcurve

Spec == Init /\ [][Next]_vars

(***************************************************************************)
(* What the properties speak of: the bins of the caller's time axis and    *)
(* the livetime interval [events[k] - priors[k], events[k]) of event k.    *)
(***************************************************************************)
NumBins == Len(times)

Widths == BroadcastDt(dtArg, times)

LeftEdge(i) == times[i] - Widths[i] \div 2

RightEdge(i) == times[i] + Widths[i] \div 2

FirstEdge == LeftEdge(1)

LastEdge == RightEdge(NumBins)

Smaller(a, b) == IF a <= b THEN a ELSE b

Larger(a, b) == IF a >= b THEN a ELSE b

\* The length of the part of [a, b] that lies in [lo, hi].
Overlap(a, b, lo, hi) ==
    Larger(0, Smaller(b, hi) - Larger(a, lo))

\* The bin that holds time t; the last bin holds the last edge too.
BinContaining(t) ==
    CHOOSE i \in 1..NumBins :
        LeftEdge(i) <= t /\ (t < RightEdge(i) \/ (i = NumBins /\ t = LastEdge))

IntervalStart(k) == events[k] - priors[k]

PriorsNonNegative == \A k \in DOMAIN priors : priors[k] >= 0

SameLength == Len(events) = Len(priors)

\* The function has returned its array (and the caller may have gone on).
HasReturned == pc \in {"returned", "saved"}

\* The same-bin pass is over.
AfterFirstPass == pc \in {"max_bin_diff", "span", "returned", "saved"}

(***************************************************************************)
(* C1                                                                      *)
(***************************************************************************)
\* One event, prior >= 0, whose livetime interval lies inside the axis.
SingleInside ==
    /\ Len(events) = 1
    /\ Len(priors) = 1
    /\ priors[1] >= 0
    /\ IntervalStart(1) >= FirstEdge
    /\ events[1] <= LastEdge

\* What the claim says bin i receives from the single event.
ExpectedShare(i) ==
    LET a == IntervalStart(1)
        b == events[1]
        s == BinContaining(a)
        e == BinContaining(b)
    IN  IF s = e THEN (IF i = s THEN priors[1] ELSE 0)
        ELSE IF i = s THEN RightEdge(s) - a
        ELSE IF s < i /\ i < e THEN Widths[i]
        ELSE IF i = e THEN b - LeftEdge(e)
        ELSE 0

\* C1: for a single event with prior >= 0 whose livetime interval lies inside
\* the axis, the returned array gives every bin the length of the overlap of
\* the interval with the bin: the whole prior to the one bin that holds the
\* interval, or else the part up to its right edge to the start bin, the full
\* width to every bin in between, the part from its left edge to the end bin,
\* and 0 to all others; the shares sum to the prior; with a positive prior the
\* call raises nothing.
C1_SingleEventShares ==
    SingleInside =>
        /\ priors[1] > 0 => pc # "error"
        /\ pc = "returned" =>
              /\ \A i \in 1..NumBins :
                    /\ livetime_array[i] = ExpectedShare(i)
                    /\ livetime_array[i] =
                           Overlap(IntervalStart(1), events[1], LeftEdge(i), RightEdge(i))
              /\ SumSeq(livetime_array) = priors[1]

\* A single event has been binned whose interval starts inside one bin of the
\* axis of varied widths, covers a wider bin entirely and ends inside a third.
C1_Witness ==
    /\ pc = "returned"
    /\ SingleInside
    /\ dtArg.kind = "array"
    /\ BinContaining(IntervalStart(1)) + 1 < BinContaining(events[1])
    /\ \A i \in 1..NumBins : livetime_array[i] > 0
    /\ \E i \in 2..NumBins : livetime_array[i] = Widths[i] /\ Widths[i] # Widths[1]

(***************************************************************************)
(* C2                                                                      *)
(***************************************************************************)
\* C2: when the lengths match and no prior is negative (events ascend in
\* every input drawn), every bin i of the working array after the same-bin
\* pass and after each span pass, and of the returned array, satisfies
\* 0 <= livetime[i] <= dt[i], up to the clamping epsilon.
C2_WithinBinWidth ==
    (SameLength /\ PriorsNonNegative /\ AfterFirstPass) =>
        \A i \in 1..NumBins :
            /\ 0 - EPS <= livetime_array[i]
            /\ livetime_array[i] <= dt[i] + EPS

(***************************************************************************)
(* C3                                                                      *)
(***************************************************************************)
\* The array the function returns for event k alone.
Alone(k) == Livetime(times, dtArg, <<events[k]>>, <<priors[k]>>)

\* C3: the returned array is the bin-by-bin sum of the arrays returned for
\* each event alone (for the event lists all of whose events, alone, make the
\* function return).
C3_Additive ==
    (/\ pc = "returned"
     /\ \A k \in DOMAIN events : Alone(k).err = "none") =>
        \A i \in 1..NumBins :
            livetime_array[i] =
                SumSeq([k \in DOMAIN events |-> Alone(k).arr[i]])

(***************************************************************************)
(* C4                                                                      *)
(***************************************************************************)
\* One event whose livetime interval crosses the first or the last edge.
SingleCrossing ==
    /\ Len(events) = 1
    /\ Len(priors) = 1
    /\ \/ IntervalStart(1) < FirstEdge /\ events[1] > FirstEdge
       \/ IntervalStart(1) < LastEdge /\ events[1] > LastEdge

\* C4: an event whose livetime interval crosses the first or the last edge
\* adds, over all bins, the length of the part of its interval inside
\* [first edge, last edge], within the epsilon: never the full prior, never a
\* negative amount.
C4_EdgeClipping ==
    (pc = "returned" /\ SingleCrossing) =>
        LET total  == SumSeq(livetime_array)
            inside == Overlap(IntervalStart(1), events[1], FirstEdge, LastEdge)
        IN  /\ total - inside <= EPS
            /\ inside - total <= EPS
            /\ total < priors[1]
            /\ total >= 0

(***************************************************************************)
(* C5                                                                      *)
(***************************************************************************)
\* The livetime interval of event k lies entirely before the first edge, or
\* starts at or after the last edge.
Outside(k) ==
    \/ events[k] <= FirstEdge /\ IntervalStart(k) <= FirstEdge
    \/ IntervalStart(k) >= LastEdge

Inside == Mask([k \in DOMAIN events |-> ~Outside(k)])

\* C5: events whose interval lies outside the axis contribute nothing: the
\* function returns what it returns for the input without them, and an array
\* of len(times) zeros when no event is left.
C5_OutsideContributesNothing ==
    (SameLength /\ Len(events) > 0) =>
        IF Inside = <<>>
        THEN /\ pc # "error"
             /\ HasReturned => livetime_array = Zeros(times)
        ELSE HasReturned =>
                 livetime_array =
                     Livetime(times, dtArg, Take(events, Inside),
                              Take(priors, Inside)).arr

(***************************************************************************)
(* C6                                                                      *)
(***************************************************************************)
\* The data correct_lightcurve returns, against its inputs: the rate of bin i
\* is 0 where the livetime is below expo_limit, and lc[i] / expo[i] * dt
\* elsewhere (n / d = a / b as n * b = a * d).
Corrected ==
    /\ outdata.expo = livetime_array
    /\ outdata.time = contents.time
    /\ outdata.dt = contents.dt
    /\ Len(outdata.lc) = NumBins
    /\ \A i \in 1..NumBins :
          IF livetime_array[i] < expo_limit
          THEN outdata.lc[i][1] = 0 /\ outdata.lc[i][2] # 0
          ELSE /\ outdata.lc[i][2] # 0
               /\ outdata.lc[i][1] * livetime_array[i] =
                      contents.lc[i] * contents.dt * outdata.lc[i][2]

\* C6: correct_lightcurve (with a positive expo_limit) returns data holding
\* the livetime array and the corrected light curve, whose value in bin i is 0
\* where the livetime is below expo_limit, a zero livetime included, and
\* lc[i] / expo[i] * dt elsewhere; the contents read from the light curve
\* file are left as they were.
C6_ExposureCorrection ==
    [][pc' = "saved" => (Corrected' /\ contents' = contents)]_vars

\* correct_lightcurve has returned data with a bin of zero livetime, a bin of
\* positive livetime below the limit and a bin at or above the limit, the last
\* two with counts in the light curve.
C6_Witness ==
    /\ pc = "saved"
    /\ \E i \in 1..NumBins : livetime_array[i] = 0 /\ contents.lc[i] > 0
    /\ \E i \in 1..NumBins :
          /\ 0 < livetime_array[i]
          /\ livetime_array[i] < expo_limit
          /\ contents.lc[i] > 0
          /\ outdata.lc[i] = Zero
    /\ \E i \in 1..NumBins :
          /\ livetime_array[i] >= expo_limit
          /\ contents.lc[i] > 0
          /\ outdata.lc[i] # Zero

(***************************************************************************)
(* C7                                                                      *)
(***************************************************************************)
\* C7: when len(events) # len(priors) the function raises at its first
\* statement: nothing has been computed and no array is returned.
C7_LengthMismatchRejected ==
    ~SameLength =>
        /\ pc \in {"start", "error"}
        /\ pc = "error" => err = "AssertionError"
        /\ dt = <<>> /\ tbins = <<>> /\ ev_fl = <<>> /\ livetime_array = <<>>

\* The call with event and prior lists of different lengths has raised.
C7_Witness ==
    /\ pc = "error"
    /\ err = "AssertionError"
    /\ Len(events) # Len(priors)
    /\ Len(events) > 0
    /\ Len(priors) > 0

(***************************************************************************)
(* C8                                                                      *)
(***************************************************************************)
\* C8: input with a negative prior is rejected up front: the function raises
\* before it bins anything and returns no array.  (The time axes drawn all
\* ascend.)
C8_NegativePriorRejected ==
    (\E k \in DOMAIN priors : priors[k] < 0) =>
        /\ pc \in {"start", "error"}
        /\ tbins = <<>>
        /\ livetime_array = <<>>

(***************************************************************************)
(* C9                                                                      *)
(***************************************************************************)
\* C9: a negative same-bin sum, start part or end part stops the function
\* with an error; the function goes on, or returns, only with contributions
\* that are all >= 0.
C9_NegativeContributionRaises ==
    AfterFirstPass => \A b \in DOMAIN expo : expo[b] >= 0

(***************************************************************************)
(* C10                                                                     *)
(***************************************************************************)
\* C10: with priors >= 0, after the filter and the clamps the start bin and
\* the end bin of every remaining event are in 0 .. N-1 with start bin <= end
\* bin; the index of the next left edge and of every interior bin of a span
\* event are in 0 .. N-1 too; the loop starts at a span of at most N-1; the
\* only IndexError is that of events[0] on an empty event list.
C10_IndicesInRange ==
    (SameLength /\ PriorsNonNegative) =>
        /\ \A k \in DOMAIN lts_bin :
              /\ 0 <= lts_bin[k]
              /\ lts_bin[k] <= ev_bin[k]
              /\ ev_bin[k] <= NumBins - 1
              /\ EventIdx(tbin_starts, ev_fl[k]) = ev_bin[k]
              /\ lts_bin[k] < ev_bin[k] =>
                    /\ NextEdgeIdx(tbin_starts, livetime_starts[k]) = lts_bin[k] + 1
                    /\ lts_bin[k] + 1 <= NumBins - 1
        /\ pc = "span" => bin_diff <= NumBins - 1
        /\ err = "IndexError" => Len(events) = 0

\* The loop has run for an event that both clamps moved: its bins are the
\* first and the last, and the loop started at the span N-1.
C10_Witness ==
    /\ pc = "returned"
    /\ PriorsNonNegative
    /\ \E k \in DOMAIN lts_bin :
          /\ lts_bin[k] = 0
          /\ ev_bin[k] = NumBins - 1
          /\ livetime_starts[k] = tbins[1] + EPS
          /\ ev_fl[k] = tbins[Len(tbins)] - EPS
    /\ \E k \in DOMAIN events : events[k] > LastEdge /\ IntervalStart(k) < FirstEdge

====
